---- MODULE Spec2Model ----
(***************************************************************************)
(* State-machine model of SlowBraintreePropertyScraper                     *)
(* (Data Collection/Braintree_Assessor_Data/BraintreeScraper.py) and of    *)
(* the script's __main__ block that drives it.                             *)
(*                                                                         *)
(* The scraper is strictly sequential, so the model is one process whose   *)
(* position is pc.  Every HTTP exchange is one step: the server's answer   *)
(* is the step's input, drawn with \E from the outcomes the code tells     *)
(* apart.  A KeyboardInterrupt is the only asynchronous event.             *)
(*                                                                         *)
(* A property record is abstracted to its account_number and its location  *)
(* (the only field the control flow reads); account numbers are 1..NumIds. *)
(***************************************************************************)
EXTENDS Integers, Sequences, FiniteSets, TLC

(* ------------------------------ bounds -------------------------------- *)
\* identifiers the site lists for the searched land-use code
NumIds == 11
\* how many identifiers (the odd ones 1, 3, ...) can be the one whose pages a
\* flaky server answers badly
NumFlaky == 2
\* priming sequences (home page GET, search POST) the server lets fail in a run
MaxPrimeFaults == 1
\* the page count the site prints in "Print page X of Y"
TotalPages == 45
\* KeyboardInterrupts delivered in one behaviour
MaxInterrupts == 1
\* calls of search_properties made on one scraper object
MaxPrimeCalls == 8
\* how far the body lengths tried lie around 0 and around the minimum length
BodySpread == 12

(* ------------------------- program constants -------------------------- *)
max_retries == 3
max_consecutive_failures == 5
SaveEvery == 10
ExtraBreakEvery == 10
LongBreakEvery == 50
DefaultPages == 183
MinBodyLength == 1000
MarkerLength == 64
\* download_with_resume: the number of bytes of the remote file, one chunk
\* each, and max_retries of that function
FileLen == 3
download_max_retries == 5
\* quick retry script: the attempts per identifier, `range(3)`
quick_attempts == 3
\* EnrichedDataStore: the number of save_enriched_property calls followed
MaxSaves == 3

NoneVal == "None"
Address == "addr"

Ids == 1..NumIds
FlakyIds == {2 * k - 1 : k \in 1..NumFlaky} \cap Ids
\* the result pages the server may fail to serve
FlakyPages == {1, 2}

VARIABLES
    pc,                  \* position of the sequential flow
    properties,          \* self.properties: sequence of records
    failed_properties,   \* self.failed_properties: account_number -> reason
    session,             \* self.session: serial number of the transport handle
    session_valid,       \* self.session_valid
    request_count,       \* self.request_count
    stats,               \* self.stats
    resume_from,         \* argument resume_from_property (0 is None)
    end_page,            \* end_page of _collect_all_property_links
    page,                \* self.current_search_page / loop variable page
    all_links,           \* all_links of _collect_all_property_links
    account_numbers,     \* account_numbers of _process_properties_slowly
    idx,                 \* 1-based position in account_numbers
    consecutive_failures,
    attempt,             \* loop variable of _scrape_property_details_with_retry
    property_data,       \* location of the record being built, or "absent"
    previous_json,       \* file braintree_properties.json
    links_json,          \* file property_links.json
    progress_files,      \* files braintree_properties_progress_<ts>.json, oldest first
    final_json,          \* file braintree_properties_final.json (and .csv)
    failed_json,         \* file failed_properties_final.json
    server,              \* what the site may answer, see below
    flaky,               \* the identifiers a flaky server answers badly
    primeFaults,         \* priming sequences that failed so far in this run
    interrupts,          \* KeyboardInterrupts delivered so far
    interrupted,         \* the handler at __main__ 887-889 has run in this run
    run,                 \* 1 for the first execution of the script, 2 for the next
    attempts,            \* history: calls of _scrape_property_details per id, this run
    lastReq,             \* history: the last HTTP request issued
    refreshedSinceAttempt, \* history: a refresh succeeded since the last attempt began
    expiryPending,       \* history: "Session expired" seen, no priming issued since
    run1Stored,          \* history: ids the first execution left on disk
    stalePending,        \* history: the pacer cleared session_valid, no priming issued since
    requestSinceWait,    \* history: a request was sent after the last _wait_between_requests
    lastWait,            \* history: what the last _wait_between_requests call did
    lastFailure,         \* history: why the last failed attempt for the current id failed
    snapshotWrites,      \* history: calls of _save_progress so far
    body,                \* argument of the _is_session_expired call under test
    returned,            \* return value of the last call under test
    detailExpired,       \* history: the detail frame of the running attempt was classified expired
    attemptLog,          \* history: the requests of the running attempt and how they were answered
    usedTransports,      \* history: serial numbers of the transports a request was sent on
    primed,              \* history: the transports on which _establish_session succeeded
    pagesRequested,      \* history: result pages requested by the enumeration
    pagesLoaded,         \* history: result pages that loaded
    discovered,          \* history: the identifier list handed to _process_properties_slowly
    local_file,          \* download_with_resume: the file `filename`
    resume_pos,          \* download_with_resume: resume_pos
    mode,                \* download_with_resume: mode
    headers,             \* download_with_resume: the Range entry of the dict headers
    session_headers,     \* download_with_resume: the Range entry of session.headers
    retry_count,         \* download_with_resume: retry_count
    response,            \* download_with_resume: the bytes the open response still delivers
    new_properties,      \* quick retry script: new_properties
    storage,             \* EnrichedDataStore: the lines of each file under storage_path
    saved,               \* history: the arguments of the save_enriched_property calls
    property_id          \* argument of the last get_enriched_property call

vars == << pc, properties, failed_properties, session, session_valid,
           request_count, stats, resume_from, end_page, page, all_links,
           account_numbers, idx, consecutive_failures, attempt, property_data,
           previous_json, links_json, progress_files, final_json, failed_json,
           server, flaky, primeFaults, interrupts, interrupted, run, attempts, lastReq,
           refreshedSinceAttempt, expiryPending, run1Stored, stalePending,
           requestSinceWait, lastWait, lastFailure, snapshotWrites, body,
           returned, detailExpired, attemptLog, usedTransports, primed,
           pagesRequested,
           pagesLoaded, discovered, local_file, resume_pos, mode, headers,
           session_headers, retry_count, response, new_properties, storage,
           saved, property_id >>

mem == << properties, failed_properties, session, session_valid,
          request_count, stats >>
locals == << resume_from, end_page, page, all_links, account_numbers, idx,
             consecutive_failures, attempt, property_data >>
disk == << previous_json, links_json, progress_files, final_json, failed_json >>
env == << server, flaky, primeFaults, interrupts, interrupted, run,
         run1Stored >>
hist == << attempts, lastReq, refreshedSinceAttempt, expiryPending >>
pacing == << stalePending, requestSinceWait, lastWait >>
downloader == << local_file, resume_pos, mode, headers, session_headers,
                 retry_count, response >>
store == << storage, saved, property_id >>
tools == << downloader, new_properties, store >>
probe == << body, returned, tools >>
enumerated == << pagesRequested, pagesLoaded, discovered >>
trace == << detailExpired, attemptLog, usedTransports, primed,
            pagesRequested, pagesLoaded,
            discovered >>

(* ------------------------------ helpers ------------------------------- *)
Range(s) == {s[i] : i \in DOMAIN s}

Record(id) == [account_number |-> id, location |-> Address]

AccountsOf(recs) == {recs[i].account_number : i \in DOMAIN recs}

NoFile == [exists |-> FALSE, data |-> << >>]
File(d) == [exists |-> TRUE, data |-> d]

RECURSIVE Ascending(_)
Ascending(S) ==
    IF S = {} THEN << >>
    ELSE LET m == CHOOSE x \in S : \A y \in S : x <= y
         IN << m >> \o Ascending(S \ {m})

Reverse(s) == [i \in 1..Len(s) |-> s[Len(s) + 1 - i]]

\* list(set(...)) returns the elements once each, in an order Python does not
\* fix; two orders are explored
Orders == {"up", "down"}
ListOfSet(S, ord) == IF ord = "up" THEN Ascending(S) ELSE Reverse(Ascending(S))

\* the identifiers printed on result page p: six per page on pages 1 and 2,
\* the last one of page 1 shown again on page 2, later pages empty
PageLinks(p) ==
    IF p = 1 THEN Ascending({i \in Ids : i <= 6})
    ELSE IF p = 2 THEN Ascending({i \in Ids : i >= 6})
    ELSE << >>

Put(f, k, v) == [x \in (DOMAIN f) \cup {k} |-> IF x = k THEN v ELSE f[x]]

Bump(st, field) == [st EXCEPT ![field] = @ + 1]

\* a request as it is issued: its kind, the validity flag at that moment,
\* whether an expiry seen earlier is still unanswered by a priming, whether
\* the pacer's invalidation is still unanswered by a priming, and whether
\* another request was sent since the last _wait_between_requests
Request(kind) == [kind |-> kind, valid |-> session_valid,
                  unrefreshedRetry |-> FALSE, afterExpiry |-> expiryPending,
                  afterStale |-> stalePending, unpaced |-> requestSinceWait,
                  expiredAttempt |-> detailExpired, transport |-> session,
                  fresh |-> session \notin usedTransports]

DataKinds == {"search_page", "summary", "detail", "sales", "previous", "total_pages"}

(* --------------------- what the server may answer --------------------- *)
\* "healthy": every request is answered correctly.
\* "flaky":   the requests for the identifiers in flaky may fail in any way.
\* "pages":   the result pages of FlakyPages may fail, and the first result
\*            page may lack the page count.
\* "down":    every detail frame comes back as the session-timeout page.
\* Unless the server is healthy, up to MaxPrimeFaults priming sequences fail.
AllEstablishOutcomes == {"ok", "get_fail", "post_fail", "exception"}

EstablishOutcomes ==
    IF server = "healthy" \/ primeFaults >= MaxPrimeFaults THEN {"ok"}
    ELSE AllEstablishOutcomes

TotalPagesOutcomes ==
    IF server = "pages" THEN {"ok", "nomarker"} ELSE {"ok"}

PageOutcomes(p) ==
    IF server = "pages" /\ p \in FlakyPages THEN {"ok", "fail"} ELSE {"ok"}

SummaryOutcomes(id) ==
    IF server = "flaky" /\ id \in flaky THEN {"ok", "http", "exception"}
    ELSE {"ok"}

DetailOutcomes(id) ==
    IF server = "down" THEN {"expired"}
    ELSE IF server = "flaky" /\ id \in flaky
         THEN {"ok", "noloc", "expired", "http", "exception"}
         ELSE {"ok"}

\* what g_sales.asp and g_previous.asp may answer; "exception" for the
\* latter is the Summary.asp visit at 757 raising
SalesOutcomes(id) ==
    IF server = "flaky" /\ id \in flaky THEN {"ok", "expired"} ELSE {"ok"}

PreviousOutcomes(id) ==
    IF server = "flaky" /\ id \in flaky THEN {"ok", "expired", "exception"}
    ELSE {"ok"}

PrimeFaultsAfter(out) == IF out = "ok" THEN primeFaults ELSE primeFaults + 1

(* ------------------------------- pacer -------------------------------- *)
\* _wait_between_requests: the counter after the call
PacedCount(rc) == rc + 1

\* `self.request_count % 10 == 0` at 103, in the call that makes the counter
\* rc + 1: the extra sleep of 20 to 30 s is taken
ExtraBreak(rc) == (rc + 1) % ExtraBreakEvery = 0

\* the long break taken on every call
LongBreakAlways(rc) == TRUE

\* `self.request_count % 50 == 0` at 109: the sleep of 60 to 90 s is taken
LongBreak(rc) == (rc + 1) % LongBreakEvery = 0

\* _wait_between_requests: the validity flag after the call that makes the
\* counter rc + 1 (114, inside the test of 109)
PacedValid(rc, valid) == IF LongBreak(rc) THEN FALSE ELSE valid

\* what one call of _wait_between_requests does: the counter it reaches, the
\* sleeps it takes (the one of base_delay at 116 is outside every test) and
\* the validity flag before and after
Wait(rc, valid) ==
    [k |-> PacedCount(rc), base |-> TRUE, extra |-> ExtraBreak(rc),
     long |-> LongBreak(rc), validBefore |-> valid,
     validAfter |-> PacedValid(rc, valid)]

NoWait == [k |-> 0, base |-> FALSE, extra |-> FALSE, long |-> FALSE,
           validBefore |-> FALSE, validAfter |-> FALSE]

\* the bodies _is_session_expired tells apart: a length and whether the
\* timeout message occurs in it (a body that holds the message is at least
\* as long as the message)
NoBody == [len |-> 0, marker |-> FALSE]

(* ------------------------- initial state ------------------------------ *)
ZeroStats == [total_attempted |-> 0, successful |-> 0, http_errors |-> 0,
              empty_responses |-> 0, extraction_errors |-> 0,
              session_resets |-> 0]

NoRequest == [kind |-> "none", valid |-> FALSE,
              unrefreshedRetry |-> FALSE, afterExpiry |-> FALSE,
              afterStale |-> FALSE, unpaced |-> FALSE,
              expiredAttempt |-> FALSE, transport |-> 0, fresh |-> FALSE]

\* no identifier list has been produced yet
NotDiscovered == [done |-> FALSE, ids |-> << >>]
Discovered(list) == [done |-> TRUE, ids |-> list]

\* __init__ (22-51): what a freshly constructed scraper holds
InitScraper ==
    /\ properties = << >>
    /\ failed_properties = << >>
    /\ session = 1
    /\ session_valid = FALSE
    /\ request_count = 0
    /\ stats = ZeroStats

InitLocals ==
    /\ end_page = 0
    /\ page = 1
    /\ all_links = << >>
    /\ account_numbers = << >>
    /\ idx = 0
    /\ consecutive_failures = 0
    /\ attempt = 0
    /\ property_data = "absent"

InitHistory ==
    /\ attempts = [i \in Ids |-> 0]
    /\ lastReq = NoRequest
    /\ refreshedSinceAttempt = FALSE
    /\ expiryPending = FALSE
    /\ interrupts = 0
    /\ interrupted = FALSE
    /\ stalePending = FALSE
    /\ requestSinceWait = FALSE
    /\ lastWait = NoWait
    /\ lastFailure = "none"
    /\ snapshotWrites = 0
    /\ detailExpired = FALSE
    /\ attemptLog = << >>
    /\ usedTransports = {}
    /\ primed = {}
    /\ pagesRequested = {}
    /\ pagesLoaded = {}
    /\ discovered = NotDiscovered

\* a header dict without a Range entry, and one that asks for the bytes
\* from position p on
NoRange == [range |-> FALSE, from |-> 0]
RangeFrom(p) == [range |-> TRUE, from |-> p]

\* download_with_resume has not been called
NoDownload ==
    /\ local_file = NoFile
    /\ resume_pos = 0
    /\ mode = "wb"
    /\ headers = NoRange
    /\ session_headers = NoRange
    /\ retry_count = 0
    /\ response = << >>

\* no EnrichedDataStore has been used
NoStore ==
    /\ storage = << >>
    /\ saved = << >>
    /\ property_id = ""

\* the other programs of the repository have not run
NoTools ==
    /\ NoDownload
    /\ new_properties = << >>
    /\ NoStore

\* no call of a function under test has been made
NoProbe ==
    /\ body = NoBody
    /\ returned = FALSE
    /\ NoTools

\* What the working directory holds when the script starts: nothing, or the
\* output of an earlier session (a record list without repeats whose records
\* all have a location, and the link list that session wrote).
Fresh == [previous |-> NoFile, links |-> NoFile, resume |-> 0]
WithPrevious == [previous |-> File(<< Record(2) >>), links |-> NoFile,
                 resume |-> 0]
WithLinks == [previous |-> File(<< Record(2) >>),
              links |-> File(ListOfSet(Ids, "down")), resume |-> 4]
LinksMissing == [previous |-> File(<< Record(2) >>), links |-> NoFile,
                 resume |-> 4]

\* The runs explored: the files found at the start, the resume argument and
\* the way the server misbehaves.
Scenarios ==
    {[files |-> f, server |-> "flaky", flaky |-> {i}] :
        f \in {Fresh, WithPrevious, WithLinks}, i \in FlakyIds}
    \cup {[files |-> f, server |-> "pages", flaky |-> {}] :
        f \in {Fresh, WithPrevious, LinksMissing}}
    \cup {[files |-> Fresh, server |-> "down", flaky |-> {}]}

Init ==
    /\ pc = "load"
    /\ InitScraper
    /\ InitLocals
    /\ InitHistory
    /\ NoProbe
    /\ \E s \in Scenarios :
         /\ previous_json = s.files.previous
         /\ links_json = s.files.links
         /\ resume_from = s.files.resume
         /\ server = s.server
         /\ flaky = s.flaky
    /\ primeFaults = 0
    /\ progress_files = << >>
    /\ final_json = NoFile
    /\ failed_json = NoFile
    /\ run = 1
    /\ run1Stored = {}

(* --------------------------- __main__, start -------------------------- *)
\* load_previous_results (190-199), called at __main__ 863
LoadPreviousResults ==
    /\ pc = "load"
    /\ properties' = IF previous_json.exists THEN previous_json.data
                     ELSE properties
    /\ pc' = "establish"
    /\ UNCHANGED << failed_properties, session, session_valid, request_count,
                    stats, locals, disk, env, hist, pacing, lastFailure,
                    snapshotWrites, probe >>
    /\ UNCHANGED trace

\* The last request _establish_session (118-158) sent, by outcome: the home
\* page GET, or the search POST that follows it.
PrimeRequest(out) ==
    IF out = "get_fail" THEN Request("prime_get")
    ELSE [Request("search_post") EXCEPT !.unpaced = TRUE]

\* the validity flag after _establish_session (118-158): set at 144 when the
\* POST returned 200, left as it was on every other path
EstablishedValid(valid, out) == IF out = "ok" THEN TRUE ELSE valid

\* the transports primed so far, after _establish_session ran on transport t
PrimedAfter(p, t, out) == IF out = "ok" THEN p \cup {t} ELSE p

\* a _create_session that leaves the validity flag as it finds it
KeptValid(valid) == valid

\* the validity flag after _create_session (53-93): cleared at 93
CreatedValid(valid) == FALSE

\* a run that enumerates the result pages whether it is resumed or not
AlwaysEnumerate(resume) == "total_pages"

\* `if resume_from_property:` at 214: the saved link list for a resumed run,
\* a fresh enumeration otherwise
AfterEstablish(resume) == IF resume # 0 THEN "load_links" ELSE "total_pages"

\* search_properties (205-223): store the search, establish the session,
\* choose between the saved link list and a fresh enumeration
EstablishInitial ==
    /\ pc = "establish"
    /\ \E out \in EstablishOutcomes :
         /\ lastReq' = PrimeRequest(out)
         /\ primeFaults' = PrimeFaultsAfter(out)
         /\ expiryPending' = FALSE
         /\ session_valid' = EstablishedValid(session_valid, out)
         /\ primed' = PrimedAfter(primed, session, out)
         /\ IF out = "ok"
            THEN /\ stats' = Bump(stats, "session_resets")
                 /\ pc' = AfterEstablish(resume_from)
            ELSE /\ pc' = "finalize"
                 /\ UNCHANGED stats
    /\ stalePending' = FALSE
    /\ requestSinceWait' = TRUE
    /\ UNCHANGED << properties, failed_properties, session, request_count,
                    locals, disk, server, flaky, interrupts, interrupted, run,
                    run1Stored, attempts, refreshedSinceAttempt, lastWait,
                    lastFailure, snapshotWrites, probe >>
    /\ usedTransports' = usedTransports \cup {session}
    /\ UNCHANGED << detailExpired, attemptLog, enumerated >>

\* search_properties (215-223): the link list of an earlier run
LoadLinks ==
    /\ pc = "load_links"
    /\ IF links_json.exists
       THEN /\ account_numbers' = links_json.data
            /\ pc' = "filter"
       ELSE /\ pc' = "finalize"
            /\ UNCHANGED account_numbers
    /\ UNCHANGED << mem, resume_from, end_page, page, all_links, idx,
                    consecutive_failures, attempt, property_data, disk, env,
                    hist, pacing, lastFailure, snapshotWrites, probe >>
    /\ discovered' = IF links_json.exists THEN Discovered(links_json.data)
                     ELSE discovered
    /\ UNCHANGED << detailExpired, attemptLog, usedTransports, primed, pagesRequested, pagesLoaded >>

(* ----------------------------- enumeration ---------------------------- *)
\* _get_total_pages (323-347), called at 243-245 because __main__ passes
\* end_page=None; start_page is 1
GetTotalPages ==
    /\ pc = "total_pages"
    /\ \E out \in TotalPagesOutcomes :
         end_page' = IF out = "ok" THEN TotalPages ELSE DefaultPages
    /\ lastReq' = Request("total_pages")
    /\ page' = 1
    /\ all_links' = << >>
    /\ pc' = "search_page"
    /\ requestSinceWait' = TRUE
    /\ UNCHANGED << mem, resume_from, account_numbers, idx,
                    consecutive_failures, attempt, property_data, disk, env,
                    attempts, refreshedSinceAttempt, expiryPending,
                    stalePending, lastWait, lastFailure, snapshotWrites,
                    probe >>
    /\ primed' = primed
    /\ usedTransports' = usedTransports \cup {session}
    /\ UNCHANGED << detailExpired, attemptLog, enumerated >>

\* an extend that forgets what was collected before
ReplaceLinks(links, new) == new

\* all_links.extend(links) at 256
Extend(links, new) == links \o new

\* a loop that gives up at the first page that fails
StopAtFailure(p, out, last) == IF out = "ok" THEN p + 1 ELSE last + 1

\* `for page in range(start_page, end_page + 1)` (249): the page after p,
\* whatever page p returned (262-265)
NextPage(p, out, last) == p + 1

\* one turn of the loop at 249-265: _process_search_page (273-305), then
\* _wait_between_requests
ProcessSearchPage ==
    /\ pc = "search_page"
    /\ page <= end_page
    /\ \E out \in PageOutcomes(page) :
         /\ all_links' = IF out = "ok" THEN Extend(all_links, PageLinks(page))
                         ELSE all_links
         /\ pagesLoaded' = IF out = "ok" THEN pagesLoaded \cup {page}
                           ELSE pagesLoaded
         /\ page' = NextPage(page, out, end_page)
    /\ pagesRequested' = pagesRequested \cup {page}
    /\ primed' = primed
    /\ usedTransports' = usedTransports \cup {session}
    /\ UNCHANGED << detailExpired, attemptLog, discovered >>
    /\ lastReq' = Request("search_page")
    /\ request_count' = PacedCount(request_count)
    /\ session_valid' = PacedValid(request_count, session_valid)
    /\ lastWait' = Wait(request_count, session_valid)
    /\ stalePending' = (stalePending \/ LongBreak(request_count))
    /\ requestSinceWait' = FALSE
    /\ UNCHANGED << pc, properties, failed_properties, session, stats,
                    resume_from, end_page, account_numbers, idx,
                    consecutive_failures, attempt, property_data, disk, env,
                    attempts, refreshedSinceAttempt, expiryPending,
                    lastFailure, snapshotWrites, probe >>

\* the link list as collected, repeats kept: what 268 would return without
\* set()
KeepAllLinks(links, ord) == links

\* list(set(all_links)) at 268
UniqueLinks(links, ord) == ListOfSet(Range(links), ord)

\* the end of _collect_all_property_links (267-271) and the saving of the
\* link list (229-231)
FinishEnumeration ==
    /\ pc = "search_page"
    /\ page > end_page
    /\ \E ord \in Orders :
         /\ account_numbers' = UniqueLinks(all_links, ord)
         /\ links_json' = File(UniqueLinks(all_links, ord))
         /\ discovered' = Discovered(UniqueLinks(all_links, ord))
    /\ UNCHANGED << detailExpired, attemptLog, usedTransports, primed, pagesRequested,
                    pagesLoaded >>
    /\ pc' = "filter"
    /\ UNCHANGED << mem, resume_from, end_page, page, all_links, idx,
                    consecutive_failures, attempt, property_data,
                    previous_json, progress_files, final_json, failed_json,
                    env, hist, pacing, lastFailure, snapshotWrites, probe >>

(* ------------------------------- driver ------------------------------- *)
\* a slice that starts after the resume point
AfterResume(list, from) ==
    IF from # 0 /\ from \in Range(list)
    THEN LET start == CHOOSE i \in DOMAIN list :
                        /\ list[i] = from
                        /\ \A j \in DOMAIN list : list[j] = from => i <= j
         IN SubSeq(list, start + 1, Len(list))
    ELSE list

\* account_numbers[start_idx:] at 356-362: the list from the first
\* occurrence of resume_from on, the whole list when it does not occur
FromResume(list, from) ==
    IF from # 0 /\ from \in Range(list)
    THEN LET start == CHOOSE i \in DOMAIN list :
                        /\ list[i] = from
                        /\ \A j \in DOMAIN list : list[j] = from => i <= j
         IN SubSeq(list, start, Len(list))
    ELSE list

\* a work list from which the identifiers already done are not removed
WorkListUnfiltered(list, from, done) == FromResume(list, from)

\* the work list of _process_properties_slowly (353-364)
WorkList(list, from, done) ==
    LET NotDone(a) == a \notin done
    IN SelectSeq(FromResume(list, from), NotDone)

\* _process_properties_slowly up to the loop (349-374)
StartProcessing ==
    /\ pc = "filter"
    /\ LET work == WorkList(account_numbers, resume_from, AccountsOf(properties))
       IN /\ account_numbers' = work
          /\ IF work = << >>
             THEN /\ pc' = "finalize"
                  /\ UNCHANGED idx
             ELSE /\ pc' = "summary"
                  /\ idx' = 1
    /\ consecutive_failures' = 0
    /\ attempt' = 0
    /\ UNCHANGED << mem, resume_from, end_page, page, all_links,
                    property_data, disk, env, hist, pacing, lastFailure,
                    snapshotWrites, probe >>
    /\ UNCHANGED trace

Current == account_numbers[idx]

(* ------------------------ response classification ------------------- *)
\* a test that takes a body of exactly the minimum length for an error page
IsSessionExpiredInclusive(b) ==
    b.len = 0 \/ b.marker \/ b.len <= MinBodyLength

\* _is_session_expired (160-173)
IsSessionExpired(b) ==
    b.len = 0 \/ b.marker \/ b.len < MinBodyLength

\* the bodies the server sends with status 200 for the detail frame: the
\* page with the assessment tables, or the short page that carries the
\* timeout message
FullPage == [len |-> MinBodyLength + 1, marker |-> FALSE]
TimeoutPage == [len |-> MarkerLength, marker |-> TRUE]
ResponseBody(out) == IF out = "expired" THEN TimeoutPage ELSE FullPage

Status200 == {"ok", "noloc", "expired"}

\* a request of the running attempt as the fetcher saw it answered: with
\* status 200 or not (another status, or an exception in place of a
\* response), and whether _is_session_expired holds of the body
Logged(kind, out) ==
    [kind |-> kind,
     success |-> out \in Status200,
     expired |-> out \in Status200 /\ IsSessionExpired(ResponseBody(out))]

(* --------------------------- record fetcher --------------------------- *)
\* an attempt that loads the detail frame whatever Summary.asp answered
DetailAnyway(success) == "detail"

\* where an attempt goes after Summary.asp was answered (483-486): back to
\* the caller unless the status is 200
AfterSummary(success) == IF success THEN "detail" ELSE "retry"

\* _scrape_property_details, first half (436-491): count the attempt, build
\* the empty record, load Summary.asp
FetchSummary ==
    /\ pc = "summary"
    /\ attempts' = [attempts EXCEPT ![Current] = @ + 1]
    /\ lastReq' = [Request("summary") EXCEPT
                     !.unrefreshedRetry = attempt > 0 /\ ~refreshedSinceAttempt]
    /\ refreshedSinceAttempt' = FALSE
    /\ \E out \in SummaryOutcomes(Current) :
         /\ attemptLog' = << Logged("summary", out) >>
         /\ CASE out = "ok" ->
                /\ stats' = Bump(stats, "total_attempted")
                /\ property_data' = NoneVal
                /\ pc' = AfterSummary(TRUE)
                /\ UNCHANGED << failed_properties, lastFailure >>
           [] out = "http" ->
                /\ stats' = Bump(Bump(stats, "total_attempted"), "http_errors")
                /\ failed_properties' =
                       Put(failed_properties, Current, "Main page HTTP")
                /\ lastFailure' = "Main page HTTP"
                /\ property_data' = "absent"
                /\ pc' = AfterSummary(FALSE)
           [] out = "exception" ->
                /\ stats' = Bump(Bump(stats, "total_attempted"), "extraction_errors")
                /\ failed_properties' =
                       Put(failed_properties, Current, "Exception")
                /\ lastFailure' = "Exception"
                /\ property_data' = "absent"
                /\ pc' = "retry"
    /\ requestSinceWait' = TRUE
    /\ UNCHANGED << properties, session, session_valid, request_count,
                    resume_from, end_page, page, all_links, account_numbers,
                    idx, consecutive_failures, attempt, disk, env,
                    expiryPending, stalePending, lastWait, snapshotWrites,
                    probe >>
    /\ detailExpired' = FALSE
    /\ primed' = primed
    /\ usedTransports' = usedTransports \cup {session}
    /\ UNCHANGED enumerated

\* an attempt that goes on to the sub-pages whatever the detail frame was
AlwaysSubPages(expired) == "sales"

\* where an attempt goes after the detail frame came with status 200
\* (497-515): back to the caller when it is the timeout page, on to the
\* extraction and the sub-pages otherwise
AfterDetail(expired) == IF expired THEN "retry" ELSE "sales"

\* _scrape_property_details, second half (493-513, 534-543): load
\* summary-bottom.asp, classify it, extract the fields
FetchDetail ==
    /\ pc = "detail"
    /\ lastReq' = Request("detail")
    /\ \E out \in DetailOutcomes(Current) :
         /\ attemptLog' = Append(attemptLog, Logged("detail", out))
         /\ CASE out \in Status200 /\ IsSessionExpired(ResponseBody(out)) ->
                /\ stats' = Bump(stats, "empty_responses")
                /\ failed_properties' =
                       Put(failed_properties, Current, "Session expired")
                /\ lastFailure' = "Session expired"
                /\ expiryPending' = TRUE
                /\ detailExpired' = TRUE
                /\ property_data' = "absent"
                /\ pc' = AfterDetail(TRUE)
           [] out = "ok" /\ ~IsSessionExpired(ResponseBody(out)) ->
                /\ property_data' = Address
                /\ pc' = AfterDetail(FALSE)
                /\ UNCHANGED << stats, failed_properties, expiryPending,
                                lastFailure, detailExpired >>
           [] out \in {"noloc", "expired"}
                /\ ~IsSessionExpired(ResponseBody(out)) ->
                /\ property_data' = NoneVal
                /\ pc' = AfterDetail(FALSE)
                /\ UNCHANGED << stats, failed_properties, expiryPending,
                                lastFailure, detailExpired >>
           [] out = "http" ->
                /\ stats' = Bump(stats, "http_errors")
                /\ failed_properties' =
                       Put(failed_properties, Current, "Bottom frame HTTP")
                /\ lastFailure' = "Bottom frame HTTP"
                /\ property_data' = "absent"
                /\ pc' = "retry"
                /\ UNCHANGED << expiryPending, detailExpired >>
           [] out = "exception" ->
                /\ stats' = Bump(stats, "extraction_errors")
                /\ failed_properties' =
                       Put(failed_properties, Current, "Exception")
                /\ lastFailure' = "Exception"
                /\ property_data' = "absent"
                /\ pc' = "retry"
                /\ UNCHANGED << expiryPending, detailExpired >>
    /\ requestSinceWait' = TRUE
    /\ UNCHANGED << properties, session, session_valid, request_count,
                    resume_from, end_page, page, all_links, account_numbers,
                    idx, consecutive_failures, attempt, disk, env, attempts,
                    refreshedSinceAttempt, stalePending, lastWait,
                    snapshotWrites, probe >>
    /\ primed' = primed
    /\ usedTransports' = usedTransports \cup {session}
    /\ UNCHANGED enumerated

\* _scrape_sales_history (727-752), called at 515-522; whatever the server
\* answers, the attempt goes on
FetchSalesHistory ==
    /\ pc = "sales"
    /\ lastReq' = Request("sales")
    /\ requestSinceWait' = TRUE
    /\ pc' = "previous"
    /\ \E out \in SalesOutcomes(Current) :
         attemptLog' = Append(attemptLog, Logged("sales", out))
    /\ UNCHANGED << mem, locals, disk, env, attempts, refreshedSinceAttempt,
                    expiryPending, stalePending, lastWait, lastFailure,
                    snapshotWrites, probe >>
    /\ primed' = primed
    /\ usedTransports' = usedTransports \cup {session}
    /\ UNCHANGED << detailExpired, enumerated >>

\* _scrape_historical_assessments (754-790), called at 524-532; the attempt
\* returns the record whatever the server answers
FetchHistoricalAssessments ==
    /\ pc = "previous"
    /\ lastReq' = Request("previous")
    /\ requestSinceWait' = TRUE
    /\ pc' = "retry"
    /\ \E out \in PreviousOutcomes(Current) :
         attemptLog' =
             IF out = "exception"
             THEN Append(attemptLog, Logged("revisit", out))
             ELSE attemptLog \o << Logged("revisit", "ok"),
                                  Logged("previous", out) >>
    /\ UNCHANGED << mem, locals, disk, env, attempts, refreshedSinceAttempt,
                    expiryPending, stalePending, lastWait, lastFailure,
                    snapshotWrites, probe >>
    /\ primed' = primed
    /\ usedTransports' = usedTransports \cup {session}
    /\ UNCHANGED << detailExpired, enumerated >>

(* ------------------------------- retries ------------------------------ *)
\* a test on `result` alone, without the location
AcceptedAny(data) == data # "absent"

\* `result and result.get('location')` at 422
Accepted(data) == data # "absent" /\ data # NoneVal

\* a loop that runs one turn too many
MoreAttemptsOffByOne(a) == a + 1 <= max_retries

\* `for attempt in range(max_retries)` at 418: another turn follows turn a
MoreAttempts(a) == a + 1 < max_retries

\* the condition at 426 under which the session is refreshed
RefreshWanted(st, a) ==
    st.empty_responses > st.successful /\ a < max_retries - 1

\* why the attempt that returned `data` counts as failed at 422: a record
\* came back and its location is None (no reason is stored for this one), or
\* nothing came back and the fetcher stored its reason
FailureOf(data, stored) ==
    IF data = NoneVal THEN "No location" ELSE stored

\* _scrape_property_details_with_retry after an attempt returned (421-434)
RetryDecision ==
    /\ pc = "retry"
    /\ lastFailure' = IF Accepted(property_data) THEN lastFailure
                      ELSE FailureOf(property_data, lastFailure)
    /\ IF Accepted(property_data)
       THEN /\ pc' = "accept"
            /\ UNCHANGED attempt
       ELSE IF RefreshWanted(stats, attempt)
       THEN /\ pc' = "refresh_retry"
            /\ UNCHANGED attempt
       ELSE IF MoreAttempts(attempt)
       THEN /\ pc' = "summary"
            /\ attempt' = attempt + 1
       ELSE /\ pc' = "reject"
            /\ UNCHANGED attempt
    /\ UNCHANGED << mem, resume_from, end_page, page, all_links,
                    account_numbers, idx, consecutive_failures, property_data,
                    disk, env, hist, pacing, snapshotWrites, probe >>
    /\ UNCHANGED trace

\* a refresh that keeps the transport it has
SameTransport(s) == s

\* _create_session (53-93) as called at 180: self.session is bound to a new
\* object, the one it held before is dropped
NewTransport(s) == s + 1

\* the first request of the priming sequence a refresh sends, on the
\* transport t the refresh made
RefreshRequest(out, t) ==
    [PrimeRequest(out) EXCEPT !.valid = FALSE, !.transport = t,
                              !.fresh = t \notin usedTransports]

\* _refresh_session_with_search (175-188) as called at 428-432:
\* _create_session (53-93), then _establish_session (118-158)
RefreshForRetry ==
    /\ pc = "refresh_retry"
    /\ session' = NewTransport(session)
    /\ usedTransports' = usedTransports \cup {NewTransport(session)}
    /\ UNCHANGED << detailExpired, attemptLog, enumerated >>
    /\ \E out \in EstablishOutcomes :
         /\ lastReq' = RefreshRequest(out, NewTransport(session))
         /\ primeFaults' = PrimeFaultsAfter(out)
         /\ expiryPending' = FALSE
         /\ IF out = "ok"
            THEN /\ stats' = Bump(stats, "session_resets")
                 /\ refreshedSinceAttempt' = TRUE
                 /\ attempt' = attempt + 1
                 /\ pc' = "summary"
            ELSE /\ pc' = "reject"
                 /\ UNCHANGED << stats, refreshedSinceAttempt, attempt >>
         /\ session_valid' =
                EstablishedValid(CreatedValid(session_valid), out)
         /\ primed' = PrimedAfter(primed, NewTransport(session), out)
    /\ stalePending' = FALSE
    /\ requestSinceWait' = TRUE
    /\ UNCHANGED << properties, failed_properties, request_count, resume_from,
                    end_page, page, all_links, account_numbers, idx,
                    consecutive_failures, property_data, disk, server, flaky,
                    interrupts, interrupted, run, run1Stored, attempts,
                    lastWait, lastFailure, snapshotWrites, probe >>

(* ------------------------ driver, after a fetch ----------------------- *)
\* a snapshot that misses the newest record
SaveProgressDropsLast(files, recs) ==
    Append(files, SubSeq(recs, 1, Len(recs) - 1))

\* _save_progress (792-800): one more snapshot file holding the whole list
SaveProgress(files, recs) == Append(files, recs)

\* _save_progress called in the second in which the newest snapshot was
\* written: strftime('%Y%m%d_%H%M%S') at 794 gives the same name and
\* open(..., 'w') at 797 replaces that file
SaveProgressSameSecond(files, recs) == [files EXCEPT ![Len(files)] = recs]

\* a test made on the list as it was before the new record was appended
CheckpointDueBeforeAppend(recs) == (Len(recs) - 1) % SaveEvery = 0

\* `len(self.properties) % 10 == 0` at 389
CheckpointDue(recs) == Len(recs) % SaveEvery = 0

\* a list that takes the new record at its head
RecordFirst(recs, rec) == << rec >> \o recs

\* `self.properties.append(property_data)` at 383
WithRecord(recs, rec) == Append(recs, rec)

\* the success branch of the loop body (382-390)
AcceptRecord ==
    /\ pc = "accept"
    /\ LET recs == WithRecord(properties,
                     [account_number |-> Current, location |-> property_data])
       IN /\ properties' = recs
          /\ progress_files' = IF CheckpointDue(recs)
                               THEN SaveProgress(progress_files, recs)
                               ELSE progress_files
          /\ snapshotWrites' = IF CheckpointDue(recs)
                               THEN snapshotWrites + 1
                               ELSE snapshotWrites
    /\ stats' = Bump(stats, "successful")
    /\ consecutive_failures' = 0
    /\ property_data' = "absent"
    /\ pc' = "wait"
    /\ UNCHANGED << failed_properties, session, session_valid, request_count,
                    resume_from, end_page, page, all_links, account_numbers,
                    idx, attempt, previous_json, links_json, final_json,
                    failed_json, env, hist, pacing, lastFailure, probe >>
    /\ UNCHANGED trace

\* a driver that ends the batch at the first identifier given up
AbortBatch(cf) == "finalize"

\* where the loop body goes after counting a failed identifier (392-397)
AfterReject(cf) ==
    IF cf >= max_consecutive_failures THEN "breaker" ELSE "wait"

\* the failure branch of the loop body up to the threshold test (391-397).
\* The `except Exception` branch (404-407) is not reached: every exception of
\* a fetch is caught in _scrape_property_details (539-543) and no step
\* modelled here raises inside the loop body.
DriverFailure ==
    /\ pc = "reject"
    /\ consecutive_failures' = consecutive_failures + 1
    /\ property_data' = "absent"
    /\ pc' = AfterReject(consecutive_failures + 1)
    /\ UNCHANGED << mem, resume_from, end_page, page, all_links,
                    account_numbers, idx, attempt, disk, env, hist, pacing,
                    lastFailure, snapshotWrites, probe >>
    /\ UNCHANGED trace

\* a driver that tries the identifier again once the refresh succeeded
RetryAfterBreaker(cf) == IF cf = 0 THEN "summary" ELSE "wait"

\* after the refresh of 398-402, reset counter or not, the loop body ends:
\* _wait_between_requests and the next identifier (409-410)
AfterBreaker(cf) == "wait"

\* the refresh after too many consecutive failures (398-402)
BreakerRefresh ==
    /\ pc = "breaker"
    /\ session' = NewTransport(session)
    /\ usedTransports' = usedTransports \cup {NewTransport(session)}
    /\ UNCHANGED << detailExpired, attemptLog, enumerated >>
    /\ \E out \in EstablishOutcomes :
         /\ lastReq' = RefreshRequest(out, NewTransport(session))
         /\ primeFaults' = PrimeFaultsAfter(out)
         /\ expiryPending' = FALSE
         /\ IF out = "ok"
            THEN /\ stats' = Bump(stats, "session_resets")
                 /\ refreshedSinceAttempt' = TRUE
                 /\ consecutive_failures' = 0
            ELSE UNCHANGED << stats, refreshedSinceAttempt,
                              consecutive_failures >>
         /\ session_valid' =
                EstablishedValid(CreatedValid(session_valid), out)
         /\ primed' = PrimedAfter(primed, NewTransport(session), out)
    /\ stalePending' = FALSE
    /\ requestSinceWait' = TRUE
    /\ pc' = AfterBreaker(consecutive_failures')
    /\ UNCHANGED << properties, failed_properties, request_count, resume_from,
                    end_page, page, all_links, account_numbers, idx, attempt,
                    property_data, disk, server, flaky, interrupts,
                    interrupted, run, run1Stored, attempts, lastWait,
                    lastFailure, snapshotWrites, probe >>

\* the end of the loop body (409-414): _wait_between_requests, then the next
\* identifier, or the return to __main__ when the list is exhausted
WaitAfterProperty ==
    /\ pc = "wait"
    /\ request_count' = PacedCount(request_count)
    /\ session_valid' = PacedValid(request_count, session_valid)
    /\ IF idx < Len(account_numbers)
       THEN /\ idx' = idx + 1
            /\ pc' = "summary"
       ELSE /\ pc' = "finalize"
            /\ UNCHANGED idx
    /\ attempt' = 0
    /\ lastWait' = Wait(request_count, session_valid)
    /\ stalePending' = (stalePending \/ LongBreak(request_count))
    /\ requestSinceWait' = FALSE
    /\ lastFailure' = "none"
    /\ UNCHANGED << properties, failed_properties, session, stats,
                    resume_from, end_page, page, all_links, account_numbers,
                    consecutive_failures, property_data, disk, env, hist,
                    snapshotWrites, probe >>
    /\ UNCHANGED trace

(* ------------------------------ interrupt ----------------------------- *)
\* The flow stands between the checkpoint of 389-390 and the end of the first
\* sleep of _wait_between_requests (410): nothing has slept since the
\* snapshot was written, so the clock may still show the second of its name.
JustCheckpointed ==
    /\ pc = "wait"
    /\ properties # << >>
    /\ CheckpointDue(properties)
    /\ properties[Len(properties)].account_number = Current

\* the positions inside the try statement of __main__ (880-886)
TryPcs == {"establish", "load_links", "total_pages", "search_page", "filter",
           "summary", "detail", "sales", "previous", "retry", "refresh_retry",
           "accept", "reject", "breaker", "wait"}

\* the positions at which a bare `except:` encloses the running code:
\* 217-223 (link list), 519-522 and 732-750 (sales history), 527-530 and
\* 762-788 (historical assessments)
BareExceptPcs == {"load_links", "sales", "previous"}

\* where the flow goes on after a bare `except:` swallowed the exception
AfterBareExcept(at) ==
    IF at = "load_links" THEN "finalize"
    ELSE IF at = "sales" THEN "previous"
    ELSE "retry"

\* A KeyboardInterrupt that reaches `except KeyboardInterrupt` (887-889):
\* no `except Exception` on the way catches it; the handler calls
\* _save_progress and the script goes on to save_results.  At a position of
\* BareExceptPcs this is the interrupt arriving in the sleep before the call.
InterruptCaught ==
    /\ pc \in TryPcs
    /\ interrupts < MaxInterrupts
    /\ interrupts' = interrupts + 1
    /\ interrupted' = TRUE
    /\ \E same \in (IF JustCheckpointed THEN BOOLEAN ELSE {FALSE}) :
         progress_files' =
             IF same THEN SaveProgressSameSecond(progress_files, properties)
             ELSE SaveProgress(progress_files, properties)
    /\ snapshotWrites' = snapshotWrites + 1
    /\ property_data' = "absent"
    /\ pc' = "finalize"
    /\ UNCHANGED << mem, resume_from, end_page, page, all_links,
                    account_numbers, idx, consecutive_failures, attempt,
                    previous_json, links_json, final_json, failed_json,
                    server, flaky, primeFaults, run, run1Stored, hist,
                    pacing, lastFailure, probe >>
    /\ UNCHANGED trace

\* A KeyboardInterrupt raised inside a bare `except:` region: it is caught
\* there like any exception and the flow goes on
InterruptSwallowed ==
    /\ pc \in BareExceptPcs
    /\ interrupts < MaxInterrupts
    /\ interrupts' = interrupts + 1
    /\ pc' = AfterBareExcept(pc)
    /\ lastReq' = IF pc = "load_links" THEN lastReq ELSE Request(pc)
    /\ requestSinceWait' = (pc # "load_links" \/ requestSinceWait)
    /\ UNCHANGED << mem, locals, disk, server, flaky, primeFaults,
                    interrupted, run, run1Stored, attempts,
                    refreshedSinceAttempt, expiryPending, stalePending,
                    lastWait, lastFailure, snapshotWrites, probe >>
    /\ primed' = primed
    /\ usedTransports' = IF pc = "load_links" THEN usedTransports
                         ELSE usedTransports \cup {session}
    /\ attemptLog' =
           IF pc = "sales"
           THEN Append(attemptLog, Logged("sales", "exception"))
           ELSE IF pc = "previous"
           THEN attemptLog \o << Logged("revisit", "ok"),
                                Logged("previous", "exception") >>
           ELSE attemptLog
    /\ UNCHANGED << detailExpired, enumerated >>

(* ------------------------------ finalize ------------------------------ *)
\* save_results (815-845), called at __main__ 892
SaveResults ==
    /\ pc = "finalize"
    /\ IF properties = << >>
       THEN UNCHANGED << final_json, failed_json >>
       ELSE /\ final_json' = File(properties)
            /\ failed_json' = IF DOMAIN failed_properties # {}
                              THEN File(failed_properties) ELSE failed_json
    /\ pc' = "done"
    /\ UNCHANGED << mem, locals, previous_json, links_json, progress_files,
                    env, hist, pacing, lastFailure, snapshotWrites, probe >>
    /\ UNCHANGED trace

(* --------------------------- specification ---------------------------- *)
Next ==
    \/ LoadPreviousResults
    \/ EstablishInitial
    \/ LoadLinks
    \/ GetTotalPages
    \/ ProcessSearchPage
    \/ FinishEnumeration
    \/ StartProcessing
    \/ FetchSummary
    \/ FetchDetail
    \/ FetchSalesHistory
    \/ FetchHistoricalAssessments
    \/ RetryDecision
    \/ RefreshForRetry
    \/ AcceptRecord
    \/ DriverFailure
    \/ BreakerRefresh
    \/ WaitAfterProperty
    \/ InterruptCaught
    \/ InterruptSwallowed
    \/ SaveResults

Spec == Init /\ [][Next]_vars

\* a step of the script itself: any step but the arrival of an interrupt
ScriptStep == Next /\ interrupts' = interrupts

\* The script is one thread that runs its next statement whenever it has
\* one: every request carries a timeout (30, 15 or 10 s) and every sleep is
\* finite, so no statement blocks for ever.  Interrupts may or may not come.
SpecLive == Init /\ [][Next]_vars /\ WF_vars(ScriptStep)

(* ------------------- two executions of the script --------------------- *)
\* The script is started in an empty directory against a server that answers
\* every request correctly, runs to its end or to an interrupt, and is then
\* started again in the directory it left behind.
InitResume ==
    /\ pc = "load"
    /\ InitScraper
    /\ InitLocals
    /\ InitHistory
    /\ NoProbe
    /\ previous_json = Fresh.previous
    /\ links_json = Fresh.links
    /\ resume_from = Fresh.resume
    /\ server = "healthy"
    /\ flaky = {}
    /\ primeFaults = 0
    /\ progress_files = << >>
    /\ final_json = NoFile
    /\ failed_json = NoFile
    /\ run = 1
    /\ run1Stored = {}

\* the identifiers of the records a run left in its snapshots and its final
\* file
StoredOnDisk ==
    AccountsOf(final_json.data)
    \cup UNION {AccountsOf(progress_files[k]) : k \in DOMAIN progress_files}

\* The script is started again (859-863): a new scraper object (__init__,
\* 22-51), the files as the first execution left them; resume_from is None
\* as at 875.
StartAgain ==
    /\ pc = "done"
    /\ run = 1
    /\ run' = 2
    /\ run1Stored' = StoredOnDisk
    /\ pc' = "load"
    /\ properties' = << >>
    /\ failed_properties' = << >>
    /\ session' = 1
    /\ session_valid' = FALSE
    /\ request_count' = 0
    /\ stats' = ZeroStats
    /\ resume_from' = 0
    /\ end_page' = 0
    /\ page' = 1
    /\ all_links' = << >>
    /\ account_numbers' = << >>
    /\ idx' = 0
    /\ consecutive_failures' = 0
    /\ attempt' = 0
    /\ property_data' = "absent"
    /\ attempts' = [i \in Ids |-> 0]
    /\ lastReq' = NoRequest
    /\ refreshedSinceAttempt' = FALSE
    /\ expiryPending' = FALSE
    /\ interrupted' = FALSE
    /\ stalePending' = FALSE
    /\ requestSinceWait' = FALSE
    /\ lastWait' = NoWait
    /\ lastFailure' = "none"
    /\ UNCHANGED << disk, server, flaky, primeFaults, interrupts,
                    snapshotWrites, probe >>
    /\ detailExpired' = FALSE
    /\ attemptLog' = << >>
    /\ usedTransports' = {}
    /\ primed' = {}
    /\ pagesRequested' = {}
    /\ pagesLoaded' = {}
    /\ discovered' = NotDiscovered

\* the steps a run takes against a server that answers every request
\* correctly: no attempt fails, so no refresh and no failure branch is reached
NextResume ==
    \/ LoadPreviousResults
    \/ EstablishInitial
    \/ GetTotalPages
    \/ ProcessSearchPage
    \/ FinishEnumeration
    \/ StartProcessing
    \/ FetchSummary
    \/ FetchDetail
    \/ FetchSalesHistory
    \/ FetchHistoricalAssessments
    \/ RetryDecision
    \/ AcceptRecord
    \/ WaitAfterProperty
    \/ InterruptCaught
    \/ InterruptSwallowed
    \/ SaveResults
    \/ StartAgain

SpecResume == InitResume /\ [][NextResume]_vars

(* ------------- _establish_session called again and again -------------- *)
\* One scraper object on which search_properties is called several times
\* (a search per land-use code, or a caller that tries again after a
\* failure); only the call of _establish_session at 209-212 is followed, the
\* server answering it in any way.
InitPrime ==
    /\ pc = "prime"
    /\ InitScraper
    /\ InitLocals
    /\ InitHistory
    /\ NoProbe
    /\ previous_json = Fresh.previous
    /\ links_json = Fresh.links
    /\ resume_from = Fresh.resume
    /\ server = "flaky"
    /\ flaky = {}
    /\ primeFaults = 0
    /\ progress_files = << >>
    /\ final_json = NoFile
    /\ failed_json = NoFile
    /\ run = 1
    /\ run1Stored = {}

\* the calls of _establish_session made so far: each one either counted a
\* session reset (145) or failed
PrimeCalls == stats.session_resets + primeFaults

\* _establish_session (118-158) as called by search_properties (209-212)
EstablishSession ==
    /\ pc = "prime"
    /\ \E out \in AllEstablishOutcomes :
         /\ lastReq' = PrimeRequest(out)
         /\ primeFaults' = PrimeFaultsAfter(out)
         /\ session_valid' = EstablishedValid(session_valid, out)
         /\ primed' = PrimedAfter(primed, session, out)
         /\ stats' = IF out = "ok" THEN Bump(stats, "session_resets")
                     ELSE stats
         /\ returned' = (out = "ok")
    /\ expiryPending' = FALSE
    /\ stalePending' = FALSE
    /\ requestSinceWait' = TRUE
    /\ pc' = "primed"
    /\ UNCHANGED << properties, failed_properties, session, request_count,
                    locals, disk, server, flaky, interrupts, interrupted, run,
                    run1Stored, attempts, refreshedSinceAttempt, lastWait,
                    lastFailure, snapshotWrites, body, tools >>
    /\ usedTransports' = usedTransports \cup {session}
    /\ UNCHANGED << detailExpired, attemptLog, enumerated >>

\* the caller calls search_properties again on the same object
CallAgain ==
    /\ pc = "primed"
    /\ PrimeCalls < MaxPrimeCalls
    /\ pc' = "prime"
    /\ UNCHANGED << mem, locals, disk, env, hist, pacing, lastFailure,
                    snapshotWrites, probe >>
    /\ UNCHANGED trace

NextPrime ==
    \/ EstablishSession
    \/ CallAgain

SpecPrime == InitPrime /\ [][NextPrime]_vars

(* ------------------- _is_session_expired on its own ------------------- *)
\* the body lengths tried: around 0, around the length of the timeout
\* message and around the minimum length
BodyLengths ==
    (0..BodySpread)
    \cup ((MarkerLength - 1)..(MarkerLength + 1))
    \cup ((MinBodyLength - BodySpread)..(MinBodyLength + BodySpread))

Bodies ==
    {b \in [len : BodyLengths, marker : BOOLEAN] :
        b.marker => b.len >= MarkerLength}

InitExpired ==
    /\ pc = "classify"
    /\ InitScraper
    /\ InitLocals
    /\ InitHistory
    /\ body \in Bodies
    /\ returned = FALSE
    /\ NoTools
    /\ previous_json = Fresh.previous
    /\ links_json = Fresh.links
    /\ resume_from = Fresh.resume
    /\ server = "healthy"
    /\ flaky = {}
    /\ primeFaults = 0
    /\ progress_files = << >>
    /\ final_json = NoFile
    /\ failed_json = NoFile
    /\ run = 1
    /\ run1Stored = {}

\* one call of _is_session_expired (160-173) on the body
ClassifyBody ==
    /\ pc = "classify"
    /\ returned' = IsSessionExpired(body)
    /\ pc' = "classified"
    /\ UNCHANGED << mem, locals, disk, env, hist, pacing, lastFailure,
                    snapshotWrites, body, tools >>
    /\ UNCHANGED trace

NextExpired == ClassifyBody

SpecExpired == InitExpired /\ [][NextExpired]_vars

(* ==================== property_parcels_downloader.py ================== *)
\* the scraper is not running: its state stays as constructed
ScraperIdle ==
    /\ InitScraper
    /\ InitLocals
    /\ InitHistory
    /\ body = NoBody
    /\ previous_json = Fresh.previous
    /\ links_json = Fresh.links
    /\ resume_from = Fresh.resume
    /\ server = "healthy"
    /\ flaky = {}
    /\ primeFaults = 0
    /\ progress_files = << >>
    /\ failed_json = NoFile
    /\ run = 1
    /\ run1Stored = {}

idle == << mem, locals, previous_json, links_json, progress_files,
           failed_json, env, hist, pacing, lastFailure, snapshotWrites, body,
           trace >>

\* the remote file, byte by byte
RemoteFile == [i \in 1..FileLen |-> i]

\* download_with_resume(url, filename) is called with nothing at filename,
\* or with the beginning of the remote file left there by an earlier call
InitDownload ==
    /\ pc = "download"
    /\ ScraperIdle
    /\ returned = FALSE
    /\ final_json = NoFile
    /\ local_file \in {NoFile}
                      \cup {File(SubSeq(RemoteFile, 1, k)) : k \in 0..FileLen}
    /\ resume_pos = 0
    /\ mode = "wb"
    /\ headers = NoRange
    /\ session_headers = NoRange
    /\ retry_count = 0
    /\ response = << >>
    /\ new_properties = << >>
    /\ NoStore

\* what the server sends for a request with the Range entry h: the bytes
\* from h.from on, the whole file without a Range entry
ServedBytes(h) ==
    IF h.range THEN SubSeq(RemoteFile, h.from + 1, FileLen) ELSE RemoteFile

\* status 416: the range starts at or behind the end of the file
NotSatisfiable(h) == h.range /\ h.from >= FileLen

\* `open(filename, mode)` at 52
Opened(f, m) == IF m = "wb" \/ ~f.exists THEN File(<< >>) ELSE f

\* lines 12-28: resume position, mode and headers from the file found, the
\* session with a copy of the headers (24), the retry counter
DownloadSetup ==
    /\ pc = "download"
    /\ IF local_file.exists
       THEN /\ resume_pos' = Len(local_file.data)
            /\ mode' = "ab"
            /\ headers' = RangeFrom(Len(local_file.data))
            /\ session_headers' = RangeFrom(Len(local_file.data))
       ELSE /\ session_headers' = headers
            /\ UNCHANGED << resume_pos, mode, headers >>
    /\ retry_count' = 0
    /\ pc' = "get"
    /\ UNCHANGED << idle, final_json, returned, local_file, response,
                    new_properties, store >>

\* lines 30-52: session.get with the headers of the session, then
\* raise_for_status and open(filename, mode); a connection error or timeout
\* goes to the handler at 68, any other exception returns False (84-86)
DownloadGet ==
    /\ pc = "get"
    /\ retry_count < download_max_retries
    /\ \E out \in {"ok", "connection_error"} :
         IF out = "connection_error"
         THEN /\ pc' = "retry"
              /\ UNCHANGED << local_file, response, returned >>
         ELSE IF NotSatisfiable(session_headers)
         THEN /\ pc' = "returned"
              /\ returned' = FALSE
              /\ UNCHANGED << local_file, response >>
         ELSE /\ pc' = "stream"
              /\ response' = ServedBytes(session_headers)
              /\ local_file' = Opened(local_file, mode)
              /\ UNCHANGED returned
    /\ UNCHANGED << idle, final_json, resume_pos, mode, headers,
                    session_headers, retry_count, new_properties, store >>

\* lines 53-56: one chunk is written, or the connection breaks
DownloadChunk ==
    /\ pc = "stream"
    /\ response # << >>
    /\ \E out \in {"ok", "connection_error"} :
         IF out = "ok"
         THEN /\ local_file' = File(Append(local_file.data, Head(response)))
              /\ response' = Tail(response)
              /\ UNCHANGED pc
         ELSE /\ response' = << >>
              /\ pc' = "retry"
              /\ UNCHANGED local_file
    /\ UNCHANGED << idle, final_json, returned, resume_pos, mode, headers,
                    session_headers, retry_count, new_properties, store >>

\* lines 65-66: the response is exhausted
DownloadDone ==
    /\ pc = "stream"
    /\ response = << >>
    /\ returned' = TRUE
    /\ pc' = "returned"
    /\ UNCHANGED << idle, final_json, downloader, new_properties, store >>

\* lines 68-82: count the retry; resume position, the Range entry of the
\* dict headers and the mode follow the file, session.headers is not touched
DownloadRetry ==
    /\ pc = "retry"
    /\ retry_count' = retry_count + 1
    /\ IF retry_count + 1 < download_max_retries
       THEN /\ pc' = "get"
            /\ UNCHANGED returned
            /\ IF local_file.exists
               THEN /\ resume_pos' = Len(local_file.data)
                    /\ headers' = RangeFrom(Len(local_file.data))
                    /\ mode' = "ab"
               ELSE UNCHANGED << resume_pos, headers, mode >>
       ELSE /\ pc' = "returned"
            /\ returned' = FALSE
            /\ UNCHANGED << resume_pos, headers, mode >>
    /\ UNCHANGED << idle, final_json, local_file, session_headers, response,
                    new_properties, store >>

NextDownload ==
    \/ DownloadSetup
    \/ DownloadGet
    \/ DownloadChunk
    \/ DownloadDone
    \/ DownloadRetry

SpecDownload == InitDownload /\ [][NextDownload]_vars

(* ===================== BraintreeAssessorScraper.py ==================== *)
\* the quick retry script: five identifiers that failed earlier
FAILED_PROPERTIES == << 1, 2, 3, 4, 5 >>

\* the script is started next to the final output of an earlier run
InitQuick ==
    /\ pc = "load_existing"
    /\ ScraperIdle
    /\ returned = FALSE
    /\ final_json = File(<< Record(6) >>)
    /\ NoDownload
    /\ new_properties = << >>
    /\ NoStore

quiet == << mem, resume_from, end_page, page, all_links, account_numbers,
            consecutive_failures, previous_json, links_json, progress_files,
            failed_json, env, refreshedSinceAttempt, expiryPending, pacing,
            lastFailure, snapshotWrites, body, returned, trace, downloader,
            store >>

\* lines 226-232: the existing output is read
QuickLoad ==
    /\ pc = "load_existing"
    /\ pc' = "establish_session"
    /\ idx' = 1
    /\ attempt' = 0
    /\ UNCHANGED << quiet, property_data, final_json, attempts, lastReq,
                    new_properties >>

\* what a request of the script may do: be answered somehow, or raise
\* (timeout, connection error)
QuickOutcomes == {"ok", "noloc", "http", "exception"}

\* establish_session (29-41), called at 236 and at 247: home GET, search
\* POST, no status is looked at; an exception is caught nowhere and ends
\* the script
QuickEstablish ==
    /\ pc = "establish_session"
    /\ \E out \in {"ok", "exception"} :
         /\ lastReq' = IF out = "ok" THEN Request("search_post")
                        ELSE Request("prime_get")
         /\ pc' = IF out = "ok" THEN "scrape_property" ELSE "crashed"
    /\ UNCHANGED << quiet, idx, attempt, property_data, final_json, attempts,
                    new_properties >>

\* scrape_property (43-220) as called at 249-255: Summary.asp, then
\* summary-bottom.asp; None unless the status is 200 and a location was
\* found; an exception ends the script
QuickScrape ==
    /\ pc = "scrape_property"
    /\ attempts' = [attempts EXCEPT ![FAILED_PROPERTIES[idx]] = @ + 1]
    /\ lastReq' = Request("detail")
    /\ \E out \in QuickOutcomes :
         CASE out = "ok" ->
                /\ new_properties' =
                       Append(new_properties, Record(FAILED_PROPERTIES[idx]))
                /\ pc' = "next_property"
                /\ UNCHANGED attempt
           [] out \in {"noloc", "http"} ->
                /\ IF attempt + 1 < quick_attempts
                   THEN /\ attempt' = attempt + 1
                        /\ pc' = "establish_session"
                   ELSE /\ pc' = "next_property"
                        /\ UNCHANGED attempt
                /\ UNCHANGED new_properties
           [] out = "exception" ->
                /\ pc' = "crashed"
                /\ UNCHANGED << attempt, new_properties >>
    /\ UNCHANGED << quiet, idx, property_data, final_json >>

\* lines 259 and 240: the wait between identifiers and the next one
QuickNext ==
    /\ pc = "next_property"
    /\ IF idx < Len(FAILED_PROPERTIES)
       THEN /\ idx' = idx + 1
            /\ attempt' = 0
            /\ pc' = "scrape_property"
       ELSE /\ pc' = "append"
            /\ UNCHANGED << idx, attempt >>
    /\ UNCHANGED << quiet, property_data, final_json, attempts, lastReq,
                    new_properties >>

\* lines 262-289: the captured records are added to the output files
QuickSave ==
    /\ pc = "append"
    /\ final_json' = IF new_properties # << >>
                     THEN File(final_json.data \o new_properties)
                     ELSE final_json
    /\ pc' = "finished"
    /\ UNCHANGED << quiet, idx, attempt, property_data, attempts, lastReq,
                    new_properties >>

NextQuick ==
    \/ QuickLoad
    \/ QuickEstablish
    \/ QuickScrape
    \/ QuickNext
    \/ QuickSave

SpecQuick == InitQuick /\ [][NextQuick]_vars

(* ============================ pipeline.py ============================= *)
\* Python values that occur as `identifier`: strings, an int (an account
\* number read from a CSV file) and None (pipeline.py 53 with no
\* account_number); text is what str() makes of the value
PyStr(s) == [type |-> "str", text |-> s]
PyInt(s) == [type |-> "int", text |-> s]
PyNone == [type |-> "NoneType", text |-> "None"]

Identifiers == {PyStr("1"), PyStr("2"), PyInt("1"), PyNone}

\* the strings get_enriched_property is asked for
PropertyIds == {"1", "2", "None"}

\* str(x) at 94
Str(x) == x.text

\* an enriched property: its identifier, the number of the save that
\* produced it (standing for the attributes that change from save to save)
\* and the Python type of its sequence values
Enriched == [identifier : Identifiers, rev : 1..MaxSaves,
             sequences : {"list", "tuple"}]

\* json.loads(json.dumps(d)): strings, ints and None come back as they
\* were, a tuple comes back as a list
JsonRoundTrip(d) == [d EXCEPT !.sequences = "list"]

\* what get_enriched_property returns: None or a dict
NotFound == [found |-> FALSE]
Found(d) == [found |-> TRUE, data |-> d]

\* a store on an empty directory
InitStore ==
    /\ pc = "store"
    /\ ScraperIdle
    /\ returned = NotFound
    /\ final_json = NoFile
    /\ NoDownload
    /\ new_properties = << >>
    /\ NoStore

\* _record_path (90-91) without the directory
RecordPath(name) == name

\* save_enriched_property (93-100): one more line in the file named after
\* the string form of the identifier
SaveEnrichedProperty ==
    /\ pc \in {"store", "got"}
    /\ Len(saved) < MaxSaves
    /\ \E d \in Enriched :
         /\ d.rev = Len(saved) + 1
         /\ LET path == RecordPath(Str(d.identifier))
                lines == IF path \in DOMAIN storage THEN storage[path]
                         ELSE << >>
            IN storage' = Put(storage, path, Append(lines, JsonRoundTrip(d)))
         /\ saved' = Append(saved, d)
    /\ pc' = "store"
    /\ UNCHANGED << idle, final_json, returned, downloader, new_properties,
                    property_id >>

\* a reader that takes the first line of the file
FirstLine(lines) == lines[1]

\* the loop at 106-111: the last line of the file
LastLine(lines) == lines[Len(lines)]

\* get_enriched_property (102-112)
GetEnrichedPropertyOf(files, id) ==
    IF RecordPath(id) \notin DOMAIN files THEN NotFound
    ELSE Found(LastLine(files[RecordPath(id)]))

GetEnrichedProperty ==
    /\ pc \in {"store", "got"}
    /\ \E id \in PropertyIds :
         /\ property_id' = id
         /\ returned' = GetEnrichedPropertyOf(storage, id)
    /\ pc' = "got"
    /\ UNCHANGED << idle, final_json, downloader, new_properties, storage,
                    saved >>

NextStore ==
    \/ SaveEnrichedProperty
    \/ GetEnrichedProperty

SpecStore == InitStore /\ [][NextStore]_vars

(* ======================= properties of the scraper ==================== *)
NoRepeats(seq) == \A i, j \in DOMAIN seq : i # j => seq[i] # seq[j]

AccountSeq(recs) == [i \in DOMAIN recs |-> recs[i].account_number]

Located(recs) == \A i \in DOMAIN recs : recs[i].location # NoneVal

\* the records fetched in this run, in the order of their capture: the list
\* without the records load_previous_results put there
FetchedThisRun ==
    SubSeq(properties, Len(properties) - stats.successful + 1, Len(properties))

\* the identifiers whose fetch was given up in a run that ended by itself
GivenUp ==
    {id \in Ids : attempts[id] > 0 /\ id \notin AccountsOf(properties)}

\* C1: no data-fetching request (result page, summary page, detail frame,
\* sales-history or historical-assessment page) is issued while
\* session_valid is false.
C1_NoFetchWhileInvalid ==
    lastReq.kind \in DataKinds => lastReq.valid

\* C2: every record in the output list, in every snapshot and in the final
\* file has a location; a record whose extraction left the location null is
\* in none of them.
C2_OnlyLocatedRecords ==
    /\ Located(properties)
    /\ \A k \in DOMAIN progress_files : Located(progress_files[k])
    /\ Located(final_json.data)

\* C2 witness: a run that ended by itself and wrote its results after giving
\* up an identifier whose every attempt returned a record without location
\* (the only failure that leaves no entry in failed_properties).
C2_Witness ==
    /\ pc = "done"
    /\ interrupts = 0
    /\ final_json.exists
    /\ \E id \in GivenUp : id \notin DOMAIN failed_properties

\* C3: when the run finalizes, every identifier whose fetch ended without an
\* accepted record is in the failure map.
C3_GivenUpIdsInFailureMap ==
    (pc = "done" /\ interrupts = 0) =>
        \A id \in GivenUp : id \in DOMAIN failed_properties

\* C4: no identifier occurs twice in the output record list, nor in any file
\* written from it.
C4_NoDuplicateAccounts ==
    /\ NoRepeats(AccountSeq(properties))
    /\ \A k \in DOMAIN progress_files : NoRepeats(AccountSeq(progress_files[k]))
    /\ NoRepeats(AccountSeq(final_json.data))

\* C4 witness: the enumeration met an identifier on two result pages and the
\* finished run holds a record of it.
C4_Witness ==
    /\ pc = "done"
    /\ \E i, j \in DOMAIN all_links :
         /\ i # j
         /\ all_links[i] = all_links[j]
         /\ all_links[i] \in AccountsOf(final_json.data)

\* C5: no identifier is attempted more than max_retries (3) times in a run,
\* and an attempt about to start is attempt number 0, 1 or 2 of its
\* identifier.
C5_BoundedAttempts ==
    /\ \A id \in Ids : attempts[id] <= max_retries
    /\ pc = "summary" => attempts[Current] = attempt /\ attempt < max_retries

\* C5 witness: the driver starts on an identifier after the one before it
\* used up its three attempts and was given up.
C5_Witness ==
    /\ pc = "summary"
    /\ idx > 1
    /\ attempts[account_numbers[idx - 1]] = max_retries
    /\ account_numbers[idx - 1] \notin AccountsOf(properties)

\* C6: an attempt that follows a failed attempt for the same identifier is
\* preceded by a session refresh.
C6_RefreshBeforeEveryRetry ==
    lastReq.kind = "summary" => ~lastReq.unrefreshedRetry

\* C7: after a detail response was classified as session-expired, a priming
\* sequence is issued before the next data-fetching request.
C7_PrimeAfterExpiry ==
    lastReq.kind \in DataKinds => ~lastReq.afterExpiry

\* C8: once a KeyboardInterrupt has arrived, no further identifier is
\* processed: the handler has flushed a snapshot holding exactly the records
\* accumulated so far and the run is finalizing.
C8_InterruptStopsRun ==
    interrupts > 0 =>
        /\ interrupted
        /\ pc \in {"finalize", "done"}
        /\ progress_files # << >>
        /\ progress_files[Len(progress_files)] = properties

\* C9: a second execution that resumes from what the first one persisted
\* fetches no identifier whose record the first execution left on disk.
C9_ResumeFetchesNothingTwice ==
    run = 2 => \A id \in run1Stored : attempts[id] = 0

JustAccepted ==
    /\ pc = "wait"
    /\ properties # << >>
    /\ properties[Len(properties)].account_number = Current

\* the number of records load_previous_results put into the list
Loaded == Len(properties) - stats.successful

\* C11 as stated: right after the 10th, 20th, ... successful fetch of the run
\* the newest snapshot holds the whole record list, also when records were
\* loaded before the run.
C11_CheckpointEveryTenthSuccess ==
    (JustAccepted /\ stats.successful % SaveEvery = 0) =>
        /\ progress_files # << >>
        /\ progress_files[Len(progress_files)] = properties

\* C11 amended: a checkpoint is written exactly when the record list, loaded
\* records included, reaches a multiple of 10: the k-th snapshot of a run
\* holds the first 10 * (Loaded div 10 + k) records of the list, which is the
\* whole list of that moment, every multiple of 10 the list has passed has its
\* snapshot, and the handler's flush holds the whole list too.
C11_CheckpointEveryTenthRecord ==
    /\ \A k \in DOMAIN progress_files :
         progress_files[k] = SubSeq(properties, 1, Len(progress_files[k]))
    /\ ~interrupted =>
         /\ \A k \in DOMAIN progress_files :
              Len(progress_files[k]) = SaveEvery * (Loaded \div SaveEvery + k)
         /\ Len(progress_files) =
                Len(properties) \div SaveEvery - Loaded \div SaveEvery

\* C11 witness: with a record loaded before the run, the checkpoint has just
\* been written after a success that is not the 10th of the run.
C11_Witness ==
    /\ JustAccepted
    /\ Loaded > 0
    /\ stats.successful % SaveEvery # 0
    /\ progress_files # << >>
    /\ progress_files[Len(progress_files)] = properties
    /\ ~interrupted

\* C12: no call of _save_progress (periodic checkpoint or the handler's
\* flush) writes to the name of a snapshot written earlier: there are as many
\* snapshot files as there were writes.
C12_NoSnapshotOverwritten ==
    Len(progress_files) = snapshotWrites

\* C13: when all attempts for an identifier have failed, the failure map
\* holds an entry for it whose reason is the reason of the last failed
\* attempt.
C13_LastReasonRecorded ==
    pc = "reject" =>
        /\ Current \in DOMAIN failed_properties
        /\ failed_properties[Current] = lastFailure

\* C14: the count of consecutive failed identifiers is below 5 whenever the
\* driver starts on an identifier (reaching 5 forced a refresh and a reset
\* to 0), and it is 0 right after a successful identifier.
C14_BreakerResetsCounter ==
    /\ (pc = "summary" /\ attempt = 0) =>
           consecutive_failures < max_consecutive_failures
    /\ JustAccepted => consecutive_failures = 0

\* the identifiers of the records load_previous_results put into the list
LoadedIds == AccountsOf(SubSeq(properties, 1, Loaded))

\* the positions of the loop of _process_properties_slowly
LoopPcs == {"summary", "detail", "sales", "previous", "retry",
            "refresh_retry", "accept", "reject", "breaker", "wait"}

\* C15: no fetch is made for an identifier of a loaded record: none of them
\* has an attempt in this run, and none of them is in the work list the
\* driver loops over.
C15_LoadedIdsNeverFetched ==
    /\ \A id \in LoadedIds : attempts[id] = 0
    /\ pc \in LoopPcs => Range(account_numbers) \cap LoadedIds = {}

\* C15 witness: a finished run that had loaded a record, met its identifier
\* again in the enumeration and fetched other identifiers.
C15_Witness ==
    /\ pc = "done"
    /\ LoadedIds \cap Range(all_links) # {}
    /\ stats.successful > 0

\* C16: _establish_session returns True exactly when it leaves the session
\* valid: after a call that reported failure the session is not valid,
\* whatever the flag was before the call.
C16_FailedPrimeLeavesInvalid ==
    pc = "primed" => (returned <=> session_valid)

\* C17: after the pacer's long break cleared session_valid, a priming
\* sequence is issued before the next request that uses the session.
C17_PrimeAfterLongBreak ==
    lastReq.kind \in DataKinds => ~lastReq.afterStale

\* C18: every request is preceded by a call of _wait_between_requests made
\* since the request before it.
C18_WaitBeforeEveryRequest ==
    lastReq.kind # "none" => ~lastReq.unpaced

\* C19: the k-th call of _wait_between_requests takes the base delay, takes
\* the extra break exactly when k is a multiple of 10, takes the long break
\* and clears session_valid exactly when k is a multiple of 50, and leaves
\* the flag as it was on every other call.
C19_PacerSchedule ==
    lastWait.k > 0 =>
        /\ lastWait.k = request_count
        /\ lastWait.base
        /\ lastWait.extra <=> lastWait.k % 10 = 0
        /\ lastWait.long <=> lastWait.k % 50 = 0
        /\ lastWait.k % 50 = 0 => ~lastWait.validAfter
        /\ lastWait.k % 50 # 0 => lastWait.validAfter = lastWait.validBefore

\* C19 witness: the 50th call has just turned a valid session stale.
C19_Witness ==
    /\ lastWait.k = LongBreakEvery
    /\ request_count = lastWait.k
    /\ lastWait.validBefore
    /\ ~session_valid

\* C20: _is_session_expired returns True exactly when the body is empty, or
\* holds the timeout message, or is shorter than 1000; a body of 1000 or more
\* without the message gives False.
C20_ExpiredExactly ==
    pc = "classified" =>
        (returned <=> (body.len = 0 \/ body.marker \/ body.len < 1000))

\* C20 witness: a body of exactly 1000 without the message was classified as
\* not expired.
C20_Witness ==
    /\ pc = "classified"
    /\ body.len = 1000
    /\ ~body.marker
    /\ ~returned

\* C21: when the detail frame of an attempt is classified as expired, the
\* attempt returns nothing and leaves the reason "Session expired", and no
\* sales-history or historical-assessment request is sent in that attempt.
C21_ExpiredAttemptStops ==
    /\ lastReq.kind \in {"sales", "previous"} => ~lastReq.expiredAttempt
    /\ (pc = "retry" /\ detailExpired) =>
          /\ property_data = "absent"
          /\ Current \in DOMAIN failed_properties
          /\ failed_properties[Current] = "Session expired"

\* C21 witness: an attempt has just returned because its detail frame was
\* the timeout page.
C21_Witness ==
    /\ pc = "retry"
    /\ detailExpired
    /\ lastReq.kind = "detail"

PrimeKinds == {"prime_get", "search_post"}

\* C22: a priming sequence is sent on a transport no request was sent on
\* before, every request goes to the transport made last, and no transport
\* replaced by a refresh is used again.
C22_RefreshOnNewTransport ==
    /\ lastReq.kind \in PrimeKinds => lastReq.fresh
    /\ lastReq.kind # "none" => lastReq.transport = session
    /\ \A t \in usedTransports : t <= session

\* C22 witness: after a detail frame was classified expired, a refresh has
\* sent its priming sequence on a new transport.
C22_Witness ==
    /\ lastReq.kind \in PrimeKinds
    /\ lastReq.transport > 1
    /\ lastReq.fresh
    /\ stats.empty_responses > 0

\* the enumeration of _collect_all_property_links has returned
Enumerated == discovered.done /\ resume_from = 0

\* the identifiers printed on the result pages that loaded
OnLoadedPages == UNION {Range(PageLinks(p)) : p \in pagesLoaded}

\* C23: a result page that fails does not end the enumeration: while it
\* runs every page before the current one has been requested, when it has
\* returned every page from 1 to end_page has been requested, and the
\* identifiers of every page that loaded are in its result.
C23_EveryPageRequested ==
    /\ pc = "search_page" => pagesRequested = 1..(page - 1)
    /\ Enumerated =>
          /\ pagesRequested = 1..end_page
          /\ OnLoadedPages \subseteq Range(discovered.ids)

\* C23 witness: the first result page failed, the second one loaded, and the
\* enumeration returned the identifiers of the second.
C23_Witness ==
    /\ Enumerated
    /\ 1 \in pagesRequested \ pagesLoaded
    /\ 2 \in pagesLoaded
    /\ discovered.ids # << >>

\* C24: the list the enumeration returns has no repeated identifier and holds
\* exactly the identifiers printed on the pages that loaded.
C24_UniqueUnionOfPages ==
    Enumerated =>
        /\ NoRepeats(discovered.ids)
        /\ Range(discovered.ids) = OnLoadedPages

\* C24 witness: two pages that print a common identifier both loaded.
C24_Witness ==
    /\ Enumerated
    /\ \E p, q \in pagesLoaded :
         /\ p # q
         /\ Range(PageLinks(p)) \cap Range(PageLinks(q)) # {}

\* C25: after save_results the failure-map file holds the failure map
\* whenever the map is not empty, also when no record was captured.
C25_FailureMapWritten ==
    (pc = "done" /\ DOMAIN failed_properties # {}) =>
        /\ failed_json.exists
        /\ failed_json.data = failed_properties

\* the driver stands between two identifiers, or has left the loop
BetweenIdentifiers ==
    \/ pc = "wait"
    \/ pc = "summary" /\ attempt = 0
    \/ pc \in {"finalize", "done"} /\ ~interrupted

\* C26: whenever the driver is between identifiers, every attempt made is
\* counted as a success or in exactly one error counter.
C26_AttemptsAccounted ==
    BetweenIdentifiers =>
        stats.total_attempted =
            stats.successful + stats.http_errors + stats.empty_responses
            + stats.extraction_errors

\* C27: once the identifier list has been enumerated or read from the link
\* file, the identifiers of the records held (loaded ones included) are
\* among the discovered identifiers, in every later state.
C27_FetchedWithinDiscovered ==
    discovered.done => AccountsOf(properties) \subseteq Range(discovered.ids)

\* the script has ended and no interrupt arrived on the way
EndedByItself == pc = "done" /\ interrupts = 0

\* C28: whatever the server does, a run without an interrupt ends, and when
\* it has ended every identifier of the work list was handed to the fetcher:
\* no failure cuts the loop short or holds it for ever.
C28_DriverTerminates ==
    /\ [](EndedByItself =>
            \A id \in Range(account_numbers) : attempts[id] > 0)
    /\ <>(pc = "done")

\* a run that ended by itself although every identifier of the work list
\* failed on every attempt and the breaker fired
C28_Witness ==
    /\ EndedByItself
    /\ Len(account_numbers) >= max_consecutive_failures
    /\ \A id \in Range(account_numbers) :
           attempts[id] = max_retries /\ id \notin AccountsOf(properties)

\* an identifier that ended in the record list or was tried in this run
Handled(id) == id \in AccountsOf(properties) \/ attempts[id] > 0

\* the positions of the discovered list that a run serves: all of them, or
\* with a resume identifier that occurs in the list those from its first
\* occurrence on
Served ==
    LET ids == discovered.ids
        at == {i \in DOMAIN ids : ids[i] = resume_from}
    IN IF resume_from = 0 \/ at = {}
       THEN DOMAIN ids
       ELSE {i \in DOMAIN ids : \E j \in at : j <= i}

\* C29 as stated: at the end of an uninterrupted run, resumed or not, every
\* discovered identifier is in the record list or was tried in this run.
C29_EveryDiscoveredDispatched ==
    (EndedByItself /\ discovered.done) =>
        \A id \in Range(discovered.ids) : Handled(id)

\* C29, amended: at the end of an uninterrupted run every discovered
\* identifier from the resume point on is in the record list or was tried in
\* this run, and no identifier that only stands before the resume point was
\* tried.
C29_DispatchedFromResumePoint ==
    (EndedByItself /\ discovered.done) =>
        \A i \in DOMAIN discovered.ids :
            LET id == discovered.ids[i]
            IN IF i \in Served
               THEN Handled(id)
               ELSE attempts[id] > 0 =>
                      \E j \in Served : discovered.ids[j] = id

\* a resumed run that ended by itself with tried identifiers after the resume
\* point and untouched ones before it
C29_Witness ==
    /\ EndedByItself
    /\ discovered.done
    /\ resume_from # 0
    /\ Served # DOMAIN discovered.ids
    /\ attempts[resume_from] > 0
    /\ \E i \in DOMAIN discovered.ids :
          i \notin Served /\ ~Handled(discovered.ids[i])

\* C30: an identifier goes to the retrying fetcher once in a run: the work
\* list names it once, the identifiers behind the current one are untried,
\* and none gets more than the max_retries attempts of its one call, the one
\* that fired the breaker included.
C30_DispatchedAtMostOnce ==
    /\ \A id \in Ids : attempts[id] <= max_retries
    /\ pc \in LoopPcs =>
          /\ NoRepeats(account_numbers)
          /\ \A j \in DOMAIN account_numbers :
                j > idx => attempts[account_numbers[j]] = 0
          /\ \A j \in DOMAIN account_numbers :
                (j < idx \/ (j = idx /\ pc = "wait")) =>
                    attempts[account_numbers[j]] >= 1

\* the driver after a breaker refresh that succeeded: the counter is back at
\* 0 and the identifier that fired the breaker is left behind, failed
C30_Witness ==
    /\ pc = "wait"
    /\ consecutive_failures = 0
    /\ idx >= max_consecutive_failures
    /\ Current \notin AccountsOf(properties)
    /\ attempts[Current] = max_retries

\* the logged request of kind k is the i-th of its attempt
LoggedAt(k, i) == i \in DOMAIN attemptLog /\ attemptLog[i].kind = k

\* the detail frame of the running attempt came with status 200 and was not
\* classified expired
DetailPassed ==
    /\ LoggedAt("detail", 2)
    /\ attemptLog[2].success
    /\ ~attemptLog[2].expired

\* C31: the requests of an attempt come in the order Summary.asp,
\* summary-bottom.asp, g_sales.asp, g_previous.asp; the detail frame is
\* requested only after Summary.asp came with status 200, the two sub-pages
\* only after the detail frame came with status 200 and was not classified
\* expired.
C31_RequestOrder ==
    \A i \in DOMAIN attemptLog :
        LET k == attemptLog[i].kind
        IN /\ (i = 1) <=> (k = "summary")
           /\ k = "detail" =>
                 i = 2 /\ LoggedAt("summary", 1) /\ attemptLog[1].success
           /\ k = "sales" => i = 3 /\ DetailPassed
           /\ k = "previous" =>
                 i > 3 /\ LoggedAt("sales", 3) /\ DetailPassed
           /\ \A j \in DOMAIN attemptLog : j # i => attemptLog[j].kind # k

\* an attempt that issued all four requests
C31_Witness ==
    /\ pc = "retry"
    /\ LoggedAt("summary", 1)
    /\ DetailPassed
    /\ LoggedAt("sales", 3)
    /\ \E i \in DOMAIN attemptLog : attemptLog[i].kind = "previous"

\* the run was started with resume_from_property
Resumed == resume_from # 0

\* no request of the enumeration was issued so far
NothingEnumerated ==
    /\ pagesRequested = {}
    /\ end_page = 0
    /\ lastReq.kind \notin {"total_pages", "search_page"}

\* the part of the discovered list a run works on: from the resume point
\* on, without the identifiers of the loaded records
ToWorkOn ==
    LET ids == discovered.ids
        NotLoaded(a) == a \notin LoadedIds
        Kept(i) == i \in Served /\ NotLoaded(ids[i])
        pos == {i \in DOMAIN ids : Kept(i)}
    IN [n \in 1..Cardinality(pos) |->
          ids[CHOOSE i \in pos : Cardinality({j \in pos : j <= i}) = n]]

\* C32 as stated: the list a resumed run works through is exactly the list
\* stored in the link file.
C32_WorkListIsLinkFile ==
    (Resumed /\ pc \in LoopPcs) => account_numbers = links_json.data

\* C32, amended: a resumed run requests no result page; the list handed to
\* the driver is the list stored in the link file and the driver works
\* through its part from the resume identifier on, without the identifiers
\* already done; when the link file cannot be read no record is fetched
\* and the record list stays as it was loaded.
C32_ResumeFromLinkFile ==
    Resumed =>
        /\ NothingEnumerated
        /\ discovered.done => discovered.ids = links_json.data
        /\ pc \in LoopPcs =>
              discovered.done /\ account_numbers = ToWorkOn
        /\ (~links_json.exists /\ pc \in {"finalize", "done"}) =>
              /\ \A id \in Ids : attempts[id] = 0
              /\ lastReq.kind \notin DataKinds
              /\ properties = IF previous_json.exists
                               THEN previous_json.data ELSE << >>

\* a resumed run in the middle of its work list, and a resumed run that
\* found no link file and ended with the loaded records only
C32_Witness ==
    \/ /\ Resumed
       /\ pc = "wait"
       /\ idx > 1
       /\ account_numbers # links_json.data
    \/ /\ Resumed
       /\ pc = "done"
       /\ ~links_json.exists
       /\ properties # << >>

\* C33: the validity flag is true only if _establish_session succeeded on
\* the transport now held, after that transport was created.
C33_ValidOnlyIfPrimed ==
    session_valid => session \in primed

\* a refresh made a new transport and its priming failed: the flag is false
\* although an older transport was primed
C33_Witness ==
    /\ ~session_valid
    /\ session \notin primed
    /\ primed # {}
    /\ lastReq.kind \in PrimeKinds
    /\ lastReq.transport = session

\* C34: when save_results has run, no identifier is both in the record list
\* and in the failure map.
C34_NoRecordListedAsFailed ==
    pc = "done" => AccountsOf(properties) \cap DOMAIN failed_properties = {}

\* C35: a record is appended only if no response of its attempt, the
\* sub-pages included, was classified as session-expired.
C35_NoExpiredResponseInRecord ==
    JustAccepted => \A i \in DOMAIN attemptLog : ~attemptLog[i].expired

\* list a is the beginning of list b
IsPrefix(a, b) == Len(a) <= Len(b) /\ SubSeq(b, 1, Len(a)) = a

\* C36: the record list only grows at its end, so every snapshot extends
\* every earlier snapshot of the run, the final output extends every
\* snapshot, and the list held extends them all.
C36_AppendOnly ==
    /\ [][IsPrefix(properties, properties')]_vars
    /\ [](\A i, j \in DOMAIN progress_files :
             i <= j => IsPrefix(progress_files[i], progress_files[j]))
    /\ [](\A i \in DOMAIN progress_files :
             /\ IsPrefix(progress_files[i], properties)
             /\ final_json.exists =>
                   IsPrefix(progress_files[i], final_json.data))

\* a run that wrote two different snapshots and the final output
C36_Witness ==
    /\ pc = "done"
    /\ final_json.exists
    /\ Len(progress_files) >= 2
    /\ progress_files[1] # progress_files[2]
    /\ Len(progress_files[1]) > Loaded

\* C37: when download_with_resume returns True the local file equals the
\* remote file, and every request sent while a local file exists asks for
\* exactly the bytes from the size of that file on.
C37_DownloadedEqualsRemote ==
    /\ (pc = "returned" /\ returned) => local_file.data = RemoteFile
    /\ (pc = "get" /\ local_file.exists) =>
          session_headers = RangeFrom(Len(local_file.data))

\* the quick retry script has ended, by itself or by an exception
QuickEnded == pc \in {"finished", "crashed"}

\* C38: in the quick retry script no identifier gets more than 3 attempts,
\* every attempt after the first follows a priming, and when the script has
\* ended every identifier of the list was attempted and every record
\* captured is in the final output.
C38_QuickRetryCompletes ==
    /\ \A id \in Ids : attempts[id] <= quick_attempts
    /\ (pc = "scrape_property" /\ attempt > 0) =>
          lastReq.kind = "search_post"
    /\ (QuickEnded /\ \E id \in Ids : attempts[id] > 0) =>
          /\ \A i \in DOMAIN FAILED_PROPERTIES :
                attempts[FAILED_PROPERTIES[i]] > 0
          /\ AccountsOf(new_properties) \subseteq AccountsOf(final_json.data)

\* the newest of the saves numbered in S
Newest(S) == saved[CHOOSE i \in S : \A j \in S : j <= i]

\* C39 as stated: get_enriched_property(id) returns the data of the newest
\* save whose identifier is id, and None when there is no such save.
C39_GetReturnsLastSave ==
    pc = "got" =>
        LET S == {i \in DOMAIN saved :
                     saved[i].identifier = PyStr(property_id)}
        IN returned = IF S = {} THEN NotFound ELSE Found(Newest(S))

\* C39, amended: get_enriched_property(id) returns the data, as decoded
\* from its JSON text, of the newest save whose identifier has the string
\* form id, and None when there is no such save; the saves of identifiers
\* with another string form do not count.
C39_GetReturnsLastSaveOfStringForm ==
    pc = "got" =>
        LET S == {i \in DOMAIN saved :
                     saved[i].identifier.text = property_id}
        IN returned =
             IF S = {} THEN NotFound
             ELSE Found([Newest(S) EXCEPT !.sequences = "list"])

\* an identifier saved twice, another identifier saved after it, and the
\* first one asked for
C39_Witness ==
    /\ pc = "got"
    /\ returned.found
    /\ returned.data.rev = 2
    /\ Len(saved) = MaxSaves
    /\ saved[1].identifier = saved[2].identifier
    /\ saved[3].identifier.text # property_id
====
